---- MODULE Spec2Model ----
(***************************************************************************)
(* The bytecode compiler (compiler.rs) and the diagnostics subsystem       *)
(* (log.rs) of krust_lang, as a state machine over one run of the          *)
(* pipeline: a parser output is compiled, then the logs are rendered.      *)
(***************************************************************************)
EXTENDS Integers, Sequences, FiniteSets, TLC

VARIABLES
    parser_output,    \* ParserOutput {file_text, expr, logs}
    cli_args,         \* [u8; 2]: <<target word width in bytes, mode byte>>
    pc,               \* "parsed", "compiled", "panicked" or "reported"
    compiler_output,  \* CompilerOutput {file_text, bytecode, logs}
    strings           \* the result of all_to_string on the final logs

vars == <<parser_output, cli_args, pc, compiler_output, strings>>

(***************************************************************************)
(* Option<T>: None is the empty sequence, Some(x) the one-element sequence *)
(***************************************************************************)
None == <<>>
Some(x) == <<x>>
IsSome(o) == o # <<>>

(***************************************************************************)
(* enum OpCode, in declaration order (the discriminant is `as u8`)         *)
(***************************************************************************)
PushInt == 0
PushByte == 1
PopInt == 2
PopByte == 3
PrintInt == 4
PrintBool == 5
MinusInt == 6
AddInt == 7
SubtractInt == 8
MultiplyInt == 9
DivideInt == 10
ModuloInt == 11
LessInt == 12
LessEqualInt == 13
GreaterInt == 14
GreaterEqualInt == 15
Not == 16
ComplementInt == 17
AndInt == 18
AndByte == 19
XorInt == 20
XorByte == 21
OrInt == 22
OrByte == 23
LeftShiftInt == 24
RightShiftInt == 25
EqualityInt == 26
EqualityByte == 27
InequalityInt == 28
InequalityByte == 29

(***************************************************************************)
(* Widths                                                                  *)
(***************************************************************************)
\* usize::BITS: `let bytes: [u8; 8] = value.to_le_bytes()` only builds where
\* usize is 8 bytes wide.
UsizeBits == 64
\* The payload of TokenType::IntLiteral is a 32-bit integer.
IntLiteralBytes == 4

RECURSIVE to_le_bytes(_, _)
\* value.to_le_bytes() for an integer of n bytes: least significant byte first
to_le_bytes(value, n) ==
    IF n = 0 THEN <<>> ELSE <<value % 256>> \o to_le_bytes(value \div 256, n - 1)

RECURSIVE Shr(_, _)
\* x >> k, by halving (2^k itself need not fit a machine integer)
Shr(x, k) == IF k = 0 \/ x = 0 THEN x ELSE Shr(x \div 2, k - 1)

Min(a, b) == IF a < b THEN a ELSE b

(***************************************************************************)
(* Expressions. A node is a record tagged by kind; the cached type of a    *)
(* value-bearing node is an Option<Type>.                                  *)
(***************************************************************************)
Token(tt, value, line, col) ==
    [token_type |-> tt, value |-> value, line |-> line, col |-> col]

Literal(token, ty) == [kind |-> "Literal", token |-> token, expr_type |-> ty]
Unary(op, e, ty) == [kind |-> "Unary", op |-> op, expr |-> e, expr_type |-> ty]
Binary(l, op, r, ty) ==
    [kind |-> "Binary", left |-> l, op |-> op, right |-> r, expr_type |-> ty]
Grouping(e, ty) == [kind |-> "Grouping", expr |-> e, expr_type |-> ty]
Statement(e) == [kind |-> "Statement", expr |-> e]
ExpressionList(l) == [kind |-> "ExpressionList", list |-> l]
Unit == [kind |-> "Unit"]
\* any other variant of the parser's Expression enum
Null == [kind |-> "Null"]

\* Expression::get_type
get_type(expr) ==
    IF expr.kind \in {"Literal", "Unary", "Binary", "Grouping"} THEN expr.expr_type
    ELSE IF expr.kind \in {"Statement", "ExpressionList", "Unit"} THEN Some("Unit")
    ELSE None

(***************************************************************************)
(* Code generation. A result is the bytes emitted, or a panic.             *)
(***************************************************************************)
Ok(bytes) == [ok |-> TRUE, bytes |-> bytes]
Panic == [ok |-> FALSE, bytes |-> <<>>]

\* bytecode.append(..) / bytecode.push(..) onto what was emitted so far
Append2(a, b) == IF a.ok /\ b.ok THEN Ok(a.bytes \o b.bytes) ELSE Panic

RECURSIVE PadZeros(_, _)
PadZeros(bytes, ptr_size) ==
    IF Len(bytes) < ptr_size THEN PadZeros(Append(bytes, 0), ptr_size) ELSE bytes

\* usize_to_ptr_size keeping the last ptr_size bytes instead of the first
usize_to_ptr_size_Tail(value, ptr_size) ==
    LET usize_size_bytes == UsizeBits \div 8
        bytes == to_le_bytes(value, usize_size_bytes)
        n == Min(ptr_size, usize_size_bytes)
        cut == SubSeq(bytes, usize_size_bytes - n + 1, usize_size_bytes)
    IN  PadZeros(cut, ptr_size)

usize_to_ptr_size(value, ptr_size) ==
    LET usize_size_bytes == UsizeBits \div 8
        bytes == to_le_bytes(value, usize_size_bytes)
        cut == SubSeq(bytes, 1, Min(ptr_size, usize_size_bytes))
    IN  PadZeros(cut, ptr_size)

handle_literal(token) ==
    CASE token.token_type = "IntLiteral" ->
            Ok(<<PushInt>> \o to_le_bytes(token.value, IntLiteralBytes))
      [] token.token_type = "True" -> Ok(<<PushByte, 1>>)
      [] token.token_type = "False" -> Ok(<<PushByte, 0>>)
      [] OTHER -> Panic

\* the opcode pushed for a unary operator
UnaryOp(op) ==
    CASE op.token_type = "Minus" -> Ok(<<MinusInt>>)
      [] op.token_type = "Tilde" -> Ok(<<ComplementInt>>)
      [] op.token_type = "ExclamationMark" -> Ok(<<Not>>)
      [] OTHER -> Panic

\* `match expr_type { Int => a, Bool => b, Unit => panic }`
ByType(expr_type, int_op, byte_op) ==
    CASE expr_type = "Int" -> Ok(<<int_op>>)
      [] expr_type = "Bool" -> Ok(<<byte_op>>)
      [] OTHER -> Panic

\* ByOptType with the byte opcode as the default arm instead of the panic
ByOptType_Default(opt_type, int_op, byte_op) ==
    CASE opt_type = Some("Int") -> Ok(<<int_op>>)
      [] OTHER -> Ok(<<byte_op>>)

\* `match &left.get_type() { Some(Int) => a, Some(Bool) => b, _ => panic }`
ByOptType(opt_type, int_op, byte_op) ==
    CASE opt_type = Some("Int") -> Ok(<<int_op>>)
      [] opt_type = Some("Bool") -> Ok(<<byte_op>>)
      [] OTHER -> Panic

\* EqualityOp with != built from the equality opcode and Not
EqualityOp_Negated(left, op) ==
    IF op.token_type = "Equality"
    THEN ByOptType(get_type(left), EqualityInt, EqualityByte)
    ELSE Append2(ByOptType(get_type(left), EqualityInt, EqualityByte), Ok(<<Not>>))

\* the Equality and Inequality arms of handle_binary
EqualityOp(left, op) ==
    IF op.token_type = "Equality"
    THEN ByOptType(get_type(left), EqualityInt, EqualityByte)
    ELSE ByOptType(get_type(left), InequalityInt, InequalityByte)

\* the position operand of a divide or modulo instruction
PositionBytes(op, ptr_size) ==
    usize_to_ptr_size(op.line, ptr_size) \o usize_to_ptr_size(op.col, ptr_size)

\* the `match op.token_type` of handle_binary: what follows the two operands
BinaryOp(ptr_size, left, op, expr_type) ==
    CASE op.token_type = "Plus" -> Ok(<<AddInt>>)
      [] op.token_type = "Minus" -> Ok(<<SubtractInt>>)
      [] op.token_type = "Star" -> Ok(<<MultiplyInt>>)
      [] op.token_type = "Slash" -> Ok(<<DivideInt>> \o PositionBytes(op, ptr_size))
      [] op.token_type = "Percent" -> Ok(<<ModuloInt>> \o PositionBytes(op, ptr_size))
      [] op.token_type = "Less" -> Ok(<<LessInt>>)
      [] op.token_type = "LessEqual" -> Ok(<<LessEqualInt>>)
      [] op.token_type = "Greater" -> Ok(<<GreaterInt>>)
      [] op.token_type = "GreaterEqual" -> Ok(<<GreaterEqualInt>>)
      [] op.token_type = "Ampersand" -> ByType(expr_type, AndInt, AndByte)
      [] op.token_type = "Caret" -> ByType(expr_type, XorInt, XorByte)
      [] op.token_type = "Bar" -> ByType(expr_type, OrInt, OrByte)
      [] op.token_type = "LeftShift" -> Ok(<<LeftShiftInt>>)
      [] op.token_type = "RightShift" -> Ok(<<RightShiftInt>>)
      [] op.token_type \in {"Equality", "Inequality"} -> EqualityOp(left, op)
      [] OTHER -> Panic

\* StatementPop discarding nothing
StatementPop_Never(opt_type) ==
    IF opt_type \in {Some("Int"), Some("Bool"), Some("Unit")} THEN Ok(<<>>) ELSE Panic

\* StatementPop without the test for Unit
StatementPop_NoUnitTest(opt_type) ==
    CASE opt_type = Some("Int") -> Ok(<<PopInt>>)
      [] opt_type = Some("Bool") -> Ok(<<PopByte>>)
      [] opt_type = Some("Unit") -> Ok(<<PopByte>>)
      [] OTHER -> Panic

\* the pop pushed after the expression of a Statement
StatementPop(opt_type) ==
    IF opt_type # Some("Unit")
    THEN CASE opt_type = Some("Int") -> Ok(<<PopInt>>)
           [] opt_type = Some("Bool") -> Ok(<<PopByte>>)
           [] OTHER -> Panic
    ELSE Ok(<<>>)

RECURSIVE generate_bytecode(_, _)
RECURSIVE handle_binary(_, _, _, _, _)
RECURSIVE generate_list(_, _, _)

\* handle_binary pushing the operator between the operands
handle_binary_InOrder(ptr_size, left, op, right, expr_type) ==
    Append2(Append2(generate_bytecode(left, ptr_size),
                    BinaryOp(ptr_size, left, op, expr_type)),
            generate_bytecode(right, ptr_size))

\* the `for expr in list` loop of the ExpressionList arm, from index i on
generate_list(list, i, ptr_size) ==
    IF i > Len(list) THEN Ok(<<>>)
    ELSE Append2(generate_bytecode(list[i], ptr_size),
                 generate_list(list, i + 1, ptr_size))

handle_binary(ptr_size, left, op, right, expr_type) ==
    Append2(Append2(generate_bytecode(left, ptr_size),
                    generate_bytecode(right, ptr_size)),
            BinaryOp(ptr_size, left, op, expr_type))

generate_bytecode(expr, ptr_size) ==
    CASE expr.kind = "Binary" ->
            IF IsSome(expr.expr_type)
            THEN handle_binary(ptr_size, expr.left, expr.op, expr.right,
                               expr.expr_type[1])
            ELSE Panic
      [] expr.kind = "ExpressionList" -> generate_list(expr.list, 1, ptr_size)
      [] expr.kind = "Grouping" -> generate_bytecode(expr.expr, ptr_size)
      [] expr.kind = "Literal" -> handle_literal(expr.token)
      [] expr.kind = "Statement" ->
            Append2(generate_bytecode(expr.expr, ptr_size),
                    StatementPop(get_type(expr.expr)))
      [] expr.kind = "Unary" ->
            Append2(generate_bytecode(expr.expr, ptr_size), UnaryOp(expr.op))
      [] expr.kind = "Unit" -> Ok(<<>>)
      [] OTHER -> Panic

(***************************************************************************)
(* Logs                                                                    *)
(***************************************************************************)
LogType(kind, type, arg, num, types) ==
    [kind |-> kind, type |-> type, arg |-> arg, num |-> num, types |-> types]
Warning(type, arg, num) == LogType("Warning", type, arg, num, <<>>)
Error(type, arg, num) == LogType("Error", type, arg, num, <<>>)
Log(log_type, line_and_col) == [log_type |-> log_type, line_and_col |-> line_and_col]

\* is_error_from deciding on the entry it looks at first
is_error_from_FirstOnly(logs, i) ==
    IF i > Len(logs) THEN FALSE ELSE logs[i].log_type.kind = "Error"

RECURSIVE is_error_from(_, _)
\* the `for log in logs` loop of is_error, from index i on
is_error_from(logs, i) ==
    IF i > Len(logs) THEN FALSE
    ELSE IF logs[i].log_type.kind = "Error" THEN TRUE
    ELSE is_error_from(logs, i + 1)

is_error(logs) == is_error_from(logs, 1)

(***************************************************************************)
(* compile                                                                 *)
(***************************************************************************)
\* Terminal without the test for Unit
Terminal_NoUnitTest(expr_type) ==
    CASE expr_type = "Int" -> <<PrintInt>>
      [] OTHER -> <<PrintBool>>

\* the terminal instruction, by the type of the root
Terminal(expr_type) ==
    IF expr_type # "Unit"
    THEN CASE expr_type = "Int" -> <<PrintInt>>
           [] expr_type = "Bool" -> <<PrintBool>>
    ELSE <<>>

\* Excessive with the length compared by > instead of >=
Excessive_Strict(ptr_size, len) ==
    ptr_size * 8 < UsizeBits /\ Shr(len - 1, ptr_size * 8) >= 1

\* `u32::from(cli_args[0]) * 8 < usize::BITS && byte_list.len() >= 1 << (cli_args[0] * 8)`
\* (len >= 1 << k is written len >> k >= 1, which is the same for len >= 0)
Excessive(ptr_size, len) ==
    ptr_size * 8 < UsizeBits /\ Shr(len, ptr_size * 8) >= 1

ExcessiveBytecodeLog == Log(Error("ExcessiveBytecode", "", 0), None)

Returned(file_text, bytecode, logs) ==
    [panicked |-> FALSE, file_text |-> file_text, bytecode |-> bytecode, logs |-> logs]
Panicked == [panicked |-> TRUE, file_text |-> "", bytecode |-> None, logs |-> <<>>]

\* compile generating the code before it looks at the inherited logs
compile_GateAfter(po, args) ==
    LET expr_type == get_type(po.expr)
        body == generate_bytecode(po.expr, args[1])
    IN  IF ~IsSome(expr_type) \/ ~body.ok THEN Panicked
        ELSE IF is_error(po.logs) THEN Returned(po.file_text, None, po.logs)
        ELSE LET byte_list == <<args[1], args[2]>> \o body.bytes
                                  \o Terminal(expr_type[1])
             IN  IF Excessive(args[1], Len(byte_list))
                 THEN Returned(po.file_text, None, Append(po.logs, ExcessiveBytecodeLog))
                 ELSE Returned(po.file_text, Some(byte_list), po.logs)

\* compile handing out the oversized buffer along with the error
compile_KeepBuffer(po, args) ==
    LET logs == po.logs IN
    IF ~is_error(logs)
    THEN LET expr_type == get_type(po.expr)
             body == generate_bytecode(po.expr, args[1])
         IN  IF ~IsSome(expr_type) \/ ~body.ok THEN Panicked
             ELSE LET byte_list == <<args[1], args[2]>> \o body.bytes
                                       \o Terminal(expr_type[1])
                  IN  IF Excessive(args[1], Len(byte_list))
                      THEN Returned(po.file_text, Some(byte_list),
                                    Append(logs, ExcessiveBytecodeLog))
                      ELSE Returned(po.file_text, Some(byte_list), logs)
    ELSE Returned(po.file_text, None, logs)

compile(po, args) ==
    LET logs == po.logs IN
    IF ~is_error(logs)
    THEN LET expr_type == get_type(po.expr)
             body == generate_bytecode(po.expr, args[1])
         IN  IF ~IsSome(expr_type) \/ ~body.ok THEN Panicked
             ELSE LET byte_list == <<args[1], args[2]>> \o body.bytes
                                       \o Terminal(expr_type[1])
                  IN  IF Excessive(args[1], Len(byte_list))
                      THEN Returned(po.file_text, None,
                                    Append(logs, ExcessiveBytecodeLog))
                      ELSE Returned(po.file_text, Some(byte_list), logs)
    ELSE Returned(po.file_text, None, logs)

(***************************************************************************)
(* Rendering: Display for Log, with styling switched off as all_to_string  *)
(* does (set_override(false) and clear()).                                 *)
(***************************************************************************)
RECURSIVE format_rest_ToEnd(_, _, _)
\* format_rest with the loop running over 1..vec.len()
format_rest_ToEnd(vec, i, value) ==
    IF i > Len(vec) THEN value
    ELSE format_rest_ToEnd(vec, i + 1, value \o ", " \o vec[i])

RECURSIVE format_rest(_, _, _)
\* the `for i in 1..vec.len()-1` loop of format_vec_string (i counts from 1 here,
\* so it runs over 2..Len(vec)-1)
format_rest(vec, i, value) ==
    IF i > Len(vec) - 1 THEN value
    ELSE format_rest(vec, i + 1, value \o ", " \o vec[i])

format_vec_string(vec) ==
    CASE Len(vec) = 0 -> None
      [] Len(vec) = 1 -> Some(vec[1])
      [] Len(vec) = 2 -> Some(vec[1] \o " and " \o vec[2])
      [] OTHER -> Some(format_rest(vec, 2, vec[1]) \o ", and " \o vec[Len(vec)])

unwrap_or(opt, default) == IF IsSome(opt) THEN opt[1] ELSE default

WarningMessage(w) ==
    CASE w.type = "CLIArgRoundedDownU16" ->
            "argument of \"" \o w.arg
                \o "\" will be rounded down to the nearest multiple of "
                \o ToString(w.num) \o "."
      [] w.type = "CLITargetLargerThanMachine" ->
            "warning: this program is being compiled for a " \o ToString(w.num)
                \o "-bit machine, while this is only a " \o ToString(UsizeBits)
                \o "-bit machine."

ErrorMessage(e) ==
    CASE e.type = "FatalError" -> ""
      [] e.type = "CLIMultipleFiles" -> "command line contains multiple files."
      [] e.type = "CLICantReadArgs" -> "could not read command line arguments."
      [] e.type = "CLINoArgs" -> "no command line arguments."
      [] e.type = "CLIRequiresArg" ->
            "compiler flag \"" \o e.arg \o "\" requires an argument."
      [] e.type = "CLIRequiresNumArg" ->
            "compiler flag \"" \o e.arg \o "\" requires a numerical argument."
      [] e.type = "CLIRequiresNumArgLessThanU16" ->
            "compiler flag \"" \o e.arg \o "\" requires an argument less than "
                \o ToString(e.num) \o "."
      [] e.type = "CLIRequiresNumArgAtLeastU16" ->
            "compiler flag \"" \o e.arg
                \o "\" requires an argument that's at least " \o ToString(e.num) \o "."
      [] e.type = "CLIRequiresBoolArg" ->
            "compiler flag \"" \o e.arg \o "\" requires a boolean argument."
      [] e.type = "CLIUnrecognizedArg" -> "unrecognized argument \"" \o e.arg \o "\"."
      [] e.type = "CLICantOpenFile" -> "could not open file \"" \o e.arg \o "\"."
      [] e.type = "CLINoFile" -> "no source file entered."
      [] e.type = "CLIFileToBig" ->
            "the file is too big to compile for a " \o ToString(e.num) \o "-bit machine."
      [] e.type = "UnrecognizedToken" -> "unrecognized token \"" \o e.arg \o "\"."
      [] e.type = "UnrepresentableIntegerLiteral" ->
            "int literal \"" \o e.arg \o "\" must be at most 2147483648."
      [] e.type = "InvalidArgsForOperator" ->
            "the operator \"" \o e.arg \o "\" has no definition over the types "
                \o unwrap_or(format_vec_string(e.types), "")
      [] e.type = "ExpectedEOF" -> "expected end of file."
      [] e.type = "UnexpectedEOF" -> "unexpected end of file."
      [] e.type = "UnexpectedToken" -> "unexpected token."
      [] e.type = "ExpectedExpressionInParens" ->
            "expected expression within parentheses."
      [] e.type = "ExpectedCloseParen" -> "expected ')' following '('."
      [] e.type = "UnnegatedMinimumIntegerLiteral" ->
            "the int literal 2147483648 must be preceded by a unary '-' operator."
      [] e.type = "ExcessiveBytecode" -> "could not compile as bytecode was too large."
      [] e.type = "CantCompile" -> "could not compile due to errors."
      [] e.type = "CompiledForDifferentTarget" ->
            "this program was compiled for a " \o ToString(e.num)
                \o "-bit machine, while this is only a " \o ToString(UsizeBits)
                \o "-bit machine."
      [] e.type = "DivideByZero" -> "division by zero."

\* <Log as Display>::fmt
fmt(log) ==
    IF log.log_type.kind = "Error" /\ log.log_type.type = "FatalError"
    THEN "fatal error; program terminated"
    ELSE LET log_type == IF log.log_type.kind = "Warning" THEN "warning" ELSE "error"
             message == IF log.log_type.kind = "Warning"
                        THEN WarningMessage(log.log_type)
                        ELSE ErrorMessage(log.log_type)
         IN  IF ~IsSome(log.line_and_col)
             THEN log_type \o ": " \o message
             ELSE log_type \o " (line " \o ToString(log.line_and_col[1][1]) \o ":"
                      \o ToString(log.line_and_col[1][2]) \o "): " \o message

all_to_string(logs) == [i \in 1..Len(logs) |-> fmt(logs[i])]

(***************************************************************************)
(* The run: compile the parser output, then render the logs.               *)
(***************************************************************************)
NoOutput == [file_text |-> "", bytecode |-> None, logs |-> <<>>]

Compile ==
    /\ pc = "parsed"
    /\ LET r == compile(parser_output, cli_args)
       IN  IF r.panicked
           THEN /\ pc' = "panicked"
                /\ UNCHANGED compiler_output
           ELSE /\ pc' = "compiled"
                /\ compiler_output' = [file_text |-> r.file_text,
                                       bytecode |-> r.bytecode, logs |-> r.logs]
    /\ UNCHANGED <<parser_output, cli_args, strings>>

Report ==
    /\ pc = "compiled"
    /\ strings' = all_to_string(compiler_output.logs)
    /\ pc' = "reported"
    /\ UNCHANGED <<parser_output, cli_args, compiler_output>>

Next == Compile \/ Report

(***************************************************************************)
(* Parser outputs the run starts from                                      *)
(***************************************************************************)
MaxList == 2      \* members of an enumerated ExpressionList
MaxLogs == 3      \* inherited logs
MaxPad == 21      \* `3 + 3;` statements of a padded program
MaxSum == 19      \* additions of a long sum
MaxTypes == 4     \* operand types named in an InvalidArgsForOperator error

\* all sequences over S of length at most n
SeqsUpTo(S, n) == UNION {[1..k -> S] : k \in 0..n}

\* n copies of x
Repeat(x, n) == [i \in 1..n |-> x]

PtrSizes == {1, 2, 4, 8}
OptTypes == {Some("Int"), Some("Bool"), Some("Unit"), None}
\* line and column values: small, beyond one byte, beyond two bytes
PosValues == {1, 7, 300, 70000}

Tok(tt) == Token(tt, 0, 1, 1)
IntLit(v) == Literal(Token("IntLiteral", v, 1, 1), Some("Int"))
BoolLit(b) == Literal(Tok(IF b THEN "True" ELSE "False"), Some("Bool"))

BinaryTokens ==
    {"Plus", "Minus", "Star", "Slash", "Percent", "Less", "LessEqual", "Greater",
     "GreaterEqual", "Ampersand", "Caret", "Bar", "LeftShift", "RightShift",
     "Equality", "Inequality"}
UnaryTokens == {"Minus", "Tilde", "ExclamationMark"}

\* the examples of the specification: 3 + 4 * 2, 10 / 0, 1 == 2, true == false
ExampleSum ==
    Binary(IntLit(3), Token("Plus", 0, 1, 3),
           Binary(IntLit(4), Token("Star", 0, 1, 7), IntLit(2), Some("Int")),
           Some("Int"))
ExampleDiv == Binary(IntLit(10), Token("Slash", 0, 1, 4), IntLit(0), Some("Int"))
ExampleEqInt == Binary(IntLit(1), Token("Equality", 0, 1, 3), IntLit(2), Some("Bool"))
ExampleEqBool ==
    Binary(BoolLit(TRUE), Token("Equality", 0, 1, 6), BoolLit(FALSE), Some("Bool"))
Examples == {ExampleSum, ExampleDiv, ExampleEqInt, ExampleEqBool}

Leaves == {IntLit(3), IntLit(16909060), BoolLit(TRUE), BoolLit(FALSE), Unit}
LeftOperands == {IntLit(3), IntLit(4), BoolLit(TRUE)}
RightOperands == {IntLit(2), BoolLit(FALSE)}

\* one operator over literals, with every cached type, consistent or not
OneOp ==
    {Binary(l, Tok(tt), r, ty) :
        l \in LeftOperands, tt \in BinaryTokens \cup {"Tilde"}, r \in RightOperands,
        ty \in OptTypes}
    \cup {Binary(IntLit(3), Token(tt, 0, line, col), IntLit(2), Some("Int")) :
            tt \in {"Slash", "Percent"}, line \in PosValues, col \in PosValues}
    \cup {Unary(Tok(tt), x, ty) :
            tt \in UnaryTokens \cup {"Plus"}, x \in {IntLit(3), BoolLit(TRUE)},
            ty \in {Some("Int"), Some("Bool"), None}}
    \cup {Grouping(x, ty) : x \in Leaves, ty \in {Some("Int"), Some("Bool"), None}}
    \cup {Statement(x) : x \in Leaves \cup {Null}}
    \cup {ExpressionList(l) :
            l \in SeqsUpTo({Statement(IntLit(3)), Statement(BoolLit(TRUE)), Unit},
                           MaxList)}
    \cup {Literal(Tok("Plus"), Some("Int")), Literal(Tok("True"), None), Null}

\* the nodes the two-operator trees are built over
WellTyped ==
    {Binary(IntLit(3), Tok(tt), IntLit(2), Some("Int")) :
        tt \in {"Plus", "Minus", "Star", "Ampersand", "Caret", "Bar", "LeftShift",
                "RightShift"}}
    \cup {Binary(IntLit(3), Token(tt, 0, 300, 7), IntLit(2), Some("Int")) :
            tt \in {"Slash", "Percent"}}
    \cup {Binary(IntLit(3), Tok(tt), IntLit(2), Some("Bool")) :
            tt \in {"Less", "LessEqual", "Greater", "GreaterEqual", "Equality",
                    "Inequality"}}
    \cup {Binary(BoolLit(TRUE), Tok(tt), BoolLit(FALSE), Some("Bool")) :
            tt \in {"Ampersand", "Caret", "Bar", "Equality", "Inequality"}}
    \cup {Unary(Tok("Minus"), IntLit(3), Some("Int")),
          Unary(Tok("Tilde"), IntLit(3), Some("Int")),
          Unary(Tok("ExclamationMark"), BoolLit(TRUE), Some("Bool")),
          Grouping(IntLit(3), Some("Int")), Grouping(BoolLit(TRUE), Some("Bool")),
          Statement(IntLit(3)), Statement(Unit),
          ExpressionList(<<Statement(BoolLit(TRUE)), Statement(IntLit(3))>>)}

TwoOps ==
    {Unary(Tok(tt), x, get_type(x)) : tt \in UnaryTokens, x \in WellTyped}
    \cup {Grouping(x, get_type(x)) : x \in WellTyped}
    \cup {Statement(x) : x \in WellTyped}
    \cup {ExpressionList(<<Statement(x), Statement(y)>>) :
            x \in WellTyped, y \in {IntLit(3), Statement(BoolLit(TRUE))}}
    \cup {Binary(x, Token(tt, 0, 2, 300), y, ty) :
            x \in WellTyped, y \in WellTyped,
            tt \in {"Star", "Slash", "Equality", "Inequality"},
            ty \in {Some("Int"), Some("Bool")}}

Exprs == Examples \cup Leaves \cup OneOp \cup TwoOps

\* a program of a `3 + 3;` statements (12 bytes each), b `!true;` statements (4
\* bytes each) and c `true;` statements (3 bytes each)
PaddedList(a, b, c) ==
    ExpressionList(
        Repeat(Statement(Binary(IntLit(3), Tok("Plus"), IntLit(3), Some("Int"))), a)
        \o Repeat(Statement(Unary(Tok("ExclamationMark"), BoolLit(TRUE), Some("Bool"))), b)
        \o Repeat(Statement(BoolLit(TRUE)), c))

RECURSIVE LongSum(_)
\* 3 + -(3 * 3) + ... + -(3 * 3) with n additions (13 bytes each)
LongSum(n) ==
    IF n = 0 THEN IntLit(3)
    ELSE Binary(LongSum(n - 1), Tok("Plus"),
                Unary(Tok("Minus"),
                      Grouping(Binary(IntLit(3), Tok("Star"), IntLit(3), Some("Int")),
                               Some("Int")),
                      Some("Int")),
                Some("Int"))

RECURSIVE Negated(_, _)
Negated(x, n) ==
    IF n = 0 THEN x ELSE Unary(Tok("Minus"), Negated(x, n - 1), Some("Int"))

LongExprs ==
    {PaddedList(a, b, c) : a \in 0..MaxPad, b \in 0..3, c \in 0..3}
    \cup {Negated(LongSum(n), u) : n \in 0..MaxSum, u \in 0..2}

\* nodes that break the typing contract: no cached type, or a token with no arm
Untyped ==
    {Literal(Token("IntLiteral", 3, 1, 1), None), Literal(Tok("True"), None),
     Unary(Tok("Minus"), IntLit(3), None), Grouping(IntLit(3), None),
     Binary(IntLit(3), Tok("Plus"), IntLit(2), None),
     Unary(Tok("Plus"), IntLit(3), Some("Int")),
     Binary(IntLit(3), Tok("Tilde"), IntLit(2), Some("Int")),
     Literal(Tok("Plus"), Some("Int")), Null}

\* such a node nested one level down, in every position of every kind of parent
UntypedInside(u) ==
    {Unary(Tok(tt), u, Some("Int")) : tt \in UnaryTokens}
    \cup {Grouping(u, ty) : ty \in {Some("Int"), Some("Unit")}}
    \cup {Statement(u), ExpressionList(<<Statement(IntLit(3)), u>>),
          ExpressionList(<<u, Unit>>)}
    \cup {Binary(u, Tok(tt), IntLit(2), ty) :
            tt \in {"Plus", "Less", "Ampersand", "Equality", "Inequality"},
            ty \in {Some("Int"), Some("Bool")}}
    \cup {Binary(IntLit(3), Tok(tt), u, ty) :
            tt \in {"Plus", "Less", "Ampersand", "Equality", "Inequality"},
            ty \in {Some("Int"), Some("Bool")}}

UntypedExprs ==
    LET one == UNION {UntypedInside(u) : u \in Untyped}
    IN  one \cup {Grouping(e, Some("Int")) : e \in one}
            \cup {ExpressionList(<<Statement(e)>>) : e \in one}

WarningLogs ==
    {Log(Warning("CLITargetLargerThanMachine", "", 128), None),
     Log(Warning("CLIArgRoundedDownU16", "--ptr-size", 8), Some(<<2, 5>>))}
ErrorLogs ==
    {Log(Error("UnexpectedToken", "", 0), Some(<<1, 4>>)),
     Log(Error("ExcessiveBytecode", "", 0), None)}
InvalidArgsLogs ==
    {Log(LogType("Error", "InvalidArgsForOperator", op, 0, types), pos) :
        op \in {"+"}, types \in SeqsUpTo({"int", "bool"}, MaxTypes),
        pos \in {None, Some(<<3, 9>>)}}

ParserOutput(file_text, expr, logs) ==
    [file_text |-> file_text, expr |-> expr, logs |-> logs]

Start(pos, args) ==
    /\ parser_output \in pos
    /\ cli_args \in args
    /\ pc = "parsed"
    /\ compiler_output = NoOutput
    /\ strings = <<>>

\* every small tree at every width, with no inherited log
InitTrees ==
    Start({ParserOutput("src", e, <<>>) : e \in Exprs}, PtrSizes \X {0})

\* every inherited log list, over trees that compile, that panic, and that are long
InitLogs ==
    Start({ParserOutput(t, e, l) :
              t \in {"src", ""},
              e \in {Unit, IntLit(3), Literal(Tok("True"), None), Null,
                     PaddedList(MaxPad, 1, 0)},
              l \in SeqsUpTo(WarningLogs \cup ErrorLogs, MaxLogs)},
          {<<1, 0>>, <<8, 1>>})

\* programs whose bytecode is about 256 bytes long
InitLong ==
    Start({ParserOutput("src", e, l) :
              e \in LongExprs, l \in SeqsUpTo(WarningLogs, 1)},
          {1, 2, 8} \X {0, 1})

\* operator errors naming any list of operand types
InitOperatorErrors ==
    Start({ParserOutput("src", Unit, <<l>>) : l \in InvalidArgsLogs}, {<<8, 0>>})

\* trees that break the typing contract somewhere below the root, with no
\* inherited Error
InitUntyped ==
    Start({ParserOutput("src", e, l) :
              e \in UntypedExprs, l \in SeqsUpTo(WarningLogs, 1)},
          {<<1, 0>>, <<8, 1>>})

Init == InitTrees \/ InitLogs \/ InitLong \/ InitOperatorErrors \/ InitUntyped

Spec == Init /\ [][Next]_vars

(***************************************************************************)
(* Properties                                                              *)
(***************************************************************************)
Returns == pc \in {"compiled", "reported"}

HasError(logs) == \E i \in DOMAIN logs : logs[i].log_type.kind = "Error"
OnlyWarnings(logs) == \A i \in DOMAIN logs : logs[i].log_type.kind = "Warning"

InLogs == parser_output.logs
OutLogs == compiler_output.logs
Width == cli_args[1]

\* C1: when the inherited logs hold an Error, at any index, compile generates no
\* code whatever the tree and the target are: it returns (it does not even reach
\* the panics of code generation), with no bytecode and with the inherited logs
\* exactly as they came in.
C1_ErrorGatesGeneration ==
    (pc # "parsed" /\ HasError(InLogs)) =>
        /\ Returns
        /\ compiler_output.bytecode = None
        /\ OutLogs = InLogs

\* an Error behind a Warning, over a tree that code generation would panic on
C1_Witness ==
    /\ pc = "compiled"
    /\ Len(InLogs) = 3
    /\ InLogs[1].log_type.kind = "Warning"
    /\ InLogs[2].log_type.kind = "Error"
    /\ InLogs[3].log_type.kind = "Warning"
    /\ parser_output.expr = Null
    /\ compiler_output.bytecode = None

\* the length of the complete buffer: header, body and terminal instruction
TotalLength ==
    2 + Len(generate_bytecode(parser_output.expr, Width).bytes)
      + (IF get_type(parser_output.expr) = Some("Unit") THEN 0 ELSE 1)

\* 2^(8w) <= len, for the lengths a buffer can have (below 2^31)
AtLeastPow256(len, w) == w < 4 /\ len >= 2 ^ (8 * w)

\* C2: without an inherited Error and with a target narrower than the host (8w <
\* 64), compile fails with exactly one new ExcessiveBytecode error and no bytecode
\* when the complete buffer is 2^(8w) bytes or longer, and returns the buffer when
\* it is shorter (at w = 1: 255 bytes pass, 256 fail); at a target as wide as the
\* host it never adds ExcessiveBytecode.
C2_SizeBound ==
    (Returns /\ ~HasError(InLogs)) =>
        IF 8 * Width < UsizeBits /\ AtLeastPow256(TotalLength, Width)
        THEN /\ compiler_output.bytecode = None
             /\ OutLogs = Append(InLogs, ExcessiveBytecodeLog)
        ELSE /\ IsSome(compiler_output.bytecode)
             /\ Len(compiler_output.bytecode[1]) = TotalLength
             /\ OutLogs = InLogs

\* a 256-byte buffer, terminal instruction included, refused at w = 1
C2_Witness ==
    /\ pc = "compiled"
    /\ Width = 1
    /\ ~HasError(InLogs)
    /\ get_type(parser_output.expr) = Some("Int")
    /\ TotalLength = 256
    /\ compiler_output.bytecode = None

\* C3: whenever compile returns, its logs are the inherited logs, unaltered and in
\* order, followed by nothing or by exactly one Error(ExcessiveBytecode) without a
\* position; inherited Warnings alone do not stop generation; and bytecode is
\* returned exactly when the returned logs hold no Error.
C3_LogsFrame ==
    Returns =>
        /\ \/ OutLogs = InLogs
           \/ OutLogs = Append(InLogs, Log(Error("ExcessiveBytecode", "", 0), None))
        /\ OnlyWarnings(InLogs) =>
              \/ IsSome(compiler_output.bytecode)
              \/ OutLogs = Append(InLogs, Log(Error("ExcessiveBytecode", "", 0), None))
        /\ IsSome(compiler_output.bytecode) <=> ~HasError(OutLogs)

\* ExcessiveBytecode added behind two inherited Warnings
C3_Witness ==
    /\ pc = "compiled"
    /\ Len(InLogs) = 2
    /\ OnlyWarnings(InLogs)
    /\ Len(OutLogs) = 3
    /\ OutLogs[3].log_type.type = "ExcessiveBytecode"
    /\ compiler_output.bytecode = None

\* C8: is_error is true exactly of the lists holding an entry of kind Error,
\* whatever its ErrorType, index or position: false of the empty list and of
\* Warnings only, true of [Warning, Error].
C8_IsErrorIffSomeError ==
    /\ is_error(InLogs) <=> HasError(InLogs)
    /\ is_error(OutLogs) <=> HasError(OutLogs)
    /\ ~is_error(<<>>)
    /\ \A w1 \in WarningLogs, w2 \in WarningLogs, e \in ErrorLogs :
          ~is_error(<<w1, w2>>) /\ is_error(<<w1, e>>)
    /\ (pc # "parsed" /\ is_error(InLogs)) => (Returns /\ OutLogs = InLogs)

\* compile gated by an Error that is the last of three logs
C8_Witness ==
    /\ pc = "compiled"
    /\ Len(InLogs) = 3
    /\ OnlyWarnings(SubSeq(InLogs, 1, 2))
    /\ InLogs[3].log_type.kind = "Error"
    /\ is_error(InLogs)
    /\ compiler_output.bytecode = None

(***************************************************************************)
(* Properties of the generated code                                        *)
(***************************************************************************)
GeneratesCode == Returns /\ IsSome(compiler_output.bytecode)

Root == parser_output.expr
Bytecode == compiler_output.bytecode[1]

RECURSIVE SubExprs(_)
\* a tree's nodes: the tree itself and the nodes nested in it at any depth
SubExprs(e) ==
    {e} \cup
        CASE e.kind = "Binary" -> SubExprs(e.left) \cup SubExprs(e.right)
          [] e.kind \in {"Unary", "Grouping", "Statement"} -> SubExprs(e.expr)
          [] e.kind = "ExpressionList" ->
                UNION {SubExprs(e.list[i]) : i \in DOMAIN e.list}
          [] OTHER -> {}

\* what follows the header in the returned buffer, less the terminal instruction
OutBody ==
    SubSeq(Bytecode, 3,
           Len(Bytecode) - (IF get_type(Root) = Some("Unit") THEN 0 ELSE 1))

\* the code of a node: of the root as returned, of a nested node as generated
Code(n) == IF n = Root THEN OutBody ELSE generate_bytecode(n, Width).bytes

RECURSIVE Flatten(_)
\* the concatenation of a sequence of byte sequences
Flatten(ss) ==
    IF Len(ss) = 0 THEN <<>>
    ELSE IF Len(ss) = 1 THEN ss[1]
    ELSE LET h == Len(ss) \div 2
         IN  Flatten(SubSeq(ss, 1, h)) \o Flatten(SubSeq(ss, h + 1, Len(ss)))

RECURSIVE PostOrder(_)
\* the nodes of a tree, every node after all the nodes of its operands, the
\* operands from left to right
PostOrder(e) ==
    CASE e.kind = "Binary" -> PostOrder(e.left) \o PostOrder(e.right) \o <<e>>
      [] e.kind \in {"Unary", "Grouping", "Statement"} -> PostOrder(e.expr) \o <<e>>
      [] e.kind = "ExpressionList" ->
            Flatten([i \in DOMAIN e.list |-> PostOrder(e.list[i])]) \o <<e>>
      [] OTHER -> <<e>>

\* byte i (from 1, least significant first) of a value below 2^31
ByteOf(v, i) == IF i > 4 THEN 0 ELSE (v \div (256 ^ (i - 1))) % 256

\* a value cut to w bytes
Truncated(v, w) == IF w >= 4 THEN v ELSE v % (256 ^ w)

RECURSIVE DecodeLE(_)
\* the value a little-endian byte sequence stands for
DecodeLE(bytes) ==
    IF bytes = <<>> THEN 0 ELSE Head(bytes) + 256 * DecodeLE(Tail(bytes))

IntOrByte(ty, int_op, byte_op) == IF ty = Some("Int") THEN int_op ELSE byte_op

\* the table of section 4.1: the one opcode of a binary operator
RefBinaryOpcode(n) ==
    LET tt == n.op.token_type IN
    CASE tt = "Plus" -> AddInt
      [] tt = "Minus" -> SubtractInt
      [] tt = "Star" -> MultiplyInt
      [] tt = "Slash" -> DivideInt
      [] tt = "Percent" -> ModuloInt
      [] tt = "Less" -> LessInt
      [] tt = "LessEqual" -> LessEqualInt
      [] tt = "Greater" -> GreaterInt
      [] tt = "GreaterEqual" -> GreaterEqualInt
      [] tt = "LeftShift" -> LeftShiftInt
      [] tt = "RightShift" -> RightShiftInt
      [] tt = "Ampersand" -> IntOrByte(n.expr_type, AndInt, AndByte)
      [] tt = "Caret" -> IntOrByte(n.expr_type, XorInt, XorByte)
      [] tt = "Bar" -> IntOrByte(n.expr_type, OrInt, OrByte)
      [] tt = "Equality" -> IntOrByte(get_type(n.left), EqualityInt, EqualityByte)
      [] tt = "Inequality" -> IntOrByte(get_type(n.left), InequalityInt, InequalityByte)

\* the table of section 4.1: what a node emits once its operands are emitted
RefEmit(n, w) ==
    CASE n.kind = "Literal" ->
            IF n.token.token_type = "IntLiteral"
            THEN <<PushInt>> \o [i \in 1..4 |-> ByteOf(n.token.value, i)]
            ELSE <<PushByte, IF n.token.token_type = "True" THEN 1 ELSE 0>>
      [] n.kind = "Unary" ->
            <<CASE n.op.token_type = "Minus" -> MinusInt
                [] n.op.token_type = "Tilde" -> ComplementInt
                [] n.op.token_type = "ExclamationMark" -> Not>>
      [] n.kind = "Binary" ->
            <<RefBinaryOpcode(n)>> \o
                (IF n.op.token_type \in {"Slash", "Percent"}
                 THEN [i \in 1..w |-> ByteOf(n.op.line, i)]
                          \o [i \in 1..w |-> ByteOf(n.op.col, i)]
                 ELSE <<>>)
      [] n.kind = "Statement" ->
            (CASE get_type(n.expr) = Some("Int") -> <<PopInt>>
               [] get_type(n.expr) = Some("Bool") -> <<PopByte>>
               [] get_type(n.expr) = Some("Unit") -> <<>>)
      [] OTHER -> <<>>

\* the post-order reference mapping
RefBytes(e, w) ==
    LET nodes == PostOrder(e) IN Flatten([i \in DOMAIN nodes |-> RefEmit(nodes[i], w)])

\* C4: the body compile returns is the post-order reference mapping of the tree:
\* every node's own emission (by the table of section 4.1) comes after the whole
\* code of its operands, left before right; Grouping, ExpressionList and Unit add
\* nothing; an integer literal is push-int and 4 little-endian bytes at every
\* width; &, ^ and | choose by the node's type. 3 + 4 * 2 gives push 3, push 4,
\* push 2, multiply, add.
C4_PostOrderMapping ==
    GeneratesCode =>
        /\ OutBody = RefBytes(Root, Width)
        /\ Root = ExampleSum =>
              OutBody = <<PushInt, 3, 0, 0, 0, PushInt, 4, 0, 0, 0,
                          PushInt, 2, 0, 0, 0, MultiplyInt, AddInt>>

\* 3 + 4 * 2 compiled for a 4-byte target
C4_Witness ==
    /\ pc = "compiled"
    /\ Root = ExampleSum
    /\ Width = 4
    /\ GeneratesCode
    /\ Len(OutBody) = 17

\* C5: a returned buffer is the two bytes of cli_args (target width, then the
\* mode byte), the code generated for the root, and then PrintInt for an Int root,
\* PrintBool for a Bool root and nothing for a Unit root; nothing else follows.
C5_BufferLayout ==
    GeneratesCode =>
        LET body == generate_bytecode(Root, Width).bytes
            ty == get_type(Root)
        IN  /\ Len(Bytecode) >= 2
            /\ Bytecode[1] = cli_args[1]
            /\ Bytecode[2] = cli_args[2]
            /\ ty = Some("Int") => Bytecode = <<cli_args[1], cli_args[2]>> \o body \o <<PrintInt>>
            /\ ty = Some("Bool") => Bytecode = <<cli_args[1], cli_args[2]>> \o body \o <<PrintBool>>
            /\ ty = Some("Unit") => Bytecode = <<cli_args[1], cli_args[2]>> \o body
            /\ ty \in {Some("Int"), Some("Bool"), Some("Unit")}

\* a statement list, of type Unit, compiled with a nonzero mode byte: no terminal
C5_Witness ==
    /\ pc = "compiled"
    /\ GeneratesCode
    /\ Root.kind = "ExpressionList"
    /\ Len(Root.list) >= 2
    /\ cli_args[2] = 1
    /\ Bytecode[Len(Bytecode)] = PopByte

DivModNodes == {n \in SubExprs(Root) : n.kind = "Binary" /\ n.op.token_type \in {"Slash", "Percent"}}
OtherBinaryNodes ==
    {n \in SubExprs(Root) : n.kind = "Binary" /\ n.op.token_type \notin {"Slash", "Percent"}}

\* the bytes after the opcode of a divide or modulo node
OperandBytes(n) ==
    SubSeq(Code(n), Len(Code(n.left)) + Len(Code(n.right)) + 2, Len(Code(n)))

\* the opcode of a divide or modulo node sits right behind its operands' code
DivModOpcodePlaced(n) ==
    /\ Len(Code(n)) = Len(Code(n.left)) + Len(Code(n.right)) + 1 + 2 * Width
    /\ Code(n)[Len(Code(n.left)) + Len(Code(n.right)) + 1]
          = (IF n.op.token_type = "Slash" THEN DivideInt ELSE ModuloInt)

\* C6 as claimed: at every width and for every operator position, the 2w bytes
\* after a divide or modulo opcode decode (little-endian, w bytes each) to the
\* operator's line and column.
C6_PositionRoundTrip ==
    GeneratesCode =>
        \A n \in DivModNodes :
            /\ DivModOpcodePlaced(n)
            /\ DecodeLE(SubSeq(OperandBytes(n), 1, Width)) = n.op.line
            /\ DecodeLE(SubSeq(OperandBytes(n), Width + 1, 2 * Width)) = n.op.col

\* C6, amended: a divide or modulo opcode is followed by exactly 2w bytes, the w
\* low-order bytes of the operator's line and then of its column, least
\* significant first: they decode to the line and the column modulo 2^(8w), hence
\* to the position itself whenever line and column are below 2^(8w); no other
\* binary operator is followed by any byte.
C6_PositionLowBytes ==
    GeneratesCode =>
        /\ \A n \in DivModNodes :
              /\ DivModOpcodePlaced(n)
              /\ DecodeLE(SubSeq(OperandBytes(n), 1, Width)) = Truncated(n.op.line, Width)
              /\ DecodeLE(SubSeq(OperandBytes(n), Width + 1, 2 * Width))
                    = Truncated(n.op.col, Width)
              /\ (n.op.line = Truncated(n.op.line, Width)
                    /\ n.op.col = Truncated(n.op.col, Width)) =>
                    /\ DecodeLE(SubSeq(OperandBytes(n), 1, Width)) = n.op.line
                    /\ DecodeLE(SubSeq(OperandBytes(n), Width + 1, 2 * Width)) = n.op.col
        /\ \A n \in OtherBinaryNodes :
              Len(Code(n)) = Len(Code(n.left)) + Len(Code(n.right)) + 1

\* a division at line 300, column 7 compiled for a 2-byte target: both fit
C6_Witness ==
    /\ pc = "compiled"
    /\ GeneratesCode
    /\ Width = 2
    /\ Root.kind = "Binary"
    /\ Root.op.token_type = "Slash"
    /\ Root.op.line = 300
    /\ Root.op.col = 7
    /\ OperandBytes(Root) = <<44, 1, 7, 0>>

EqualityNodes ==
    {n \in SubExprs(Root) : n.kind = "Binary" /\ n.op.token_type \in {"Equality", "Inequality"}}

\* the opcode for an operator and the type of its left operand, and nothing else
EqualityTable(tt, left_type) ==
    CASE tt = "Equality" /\ left_type = Some("Int") -> EqualityInt
      [] tt = "Equality" /\ left_type = Some("Bool") -> EqualityByte
      [] tt = "Inequality" /\ left_type = Some("Int") -> InequalityInt
      [] tt = "Inequality" /\ left_type = Some("Bool") -> InequalityByte

\* C7: the code of an == or != node is the code of its operands and then one
\* opcode, given by the operator and the type of the left operand alone (not by the
\* literal values, the right operand or the node's own type); != is one inequality
\* opcode, with no Not after it; 1 == 2 and true == false get different opcodes.
C7_EqualityByLeftType ==
    GeneratesCode =>
        /\ \A n \in EqualityNodes :
              Code(n) = Code(n.left) \o Code(n.right)
                            \o <<EqualityTable(n.op.token_type, get_type(n.left))>>
        /\ Root = ExampleEqInt => OutBody[Len(OutBody)] = EqualityInt
        /\ Root = ExampleEqBool => OutBody[Len(OutBody)] = EqualityByte

\* true != 2, cached as Int: the left operand alone decides
C7_Witness ==
    /\ pc = "compiled"
    /\ GeneratesCode
    /\ Root.kind = "Binary"
    /\ Root.op.token_type = "Inequality"
    /\ get_type(Root.left) = Some("Bool")
    /\ get_type(Root.right) = Some("Int")
    /\ Root.expr_type = Some("Int")
    /\ OutBody[Len(OutBody)] = InequalityByte

StatementNodes == {n \in SubExprs(Root) : n.kind = "Statement"}

\* C10: the code of Statement(x) is the code of x and then PopInt when x is Int,
\* PopByte when x is Bool, and nothing when x is Unit: one pop at most, and no
\* print instruction.
C10_StatementPop ==
    GeneratesCode =>
        \A n \in StatementNodes :
            /\ get_type(n.expr) = Some("Int") => Code(n) = Code(n.expr) \o <<PopInt>>
            /\ get_type(n.expr) = Some("Bool") => Code(n) = Code(n.expr) \o <<PopByte>>
            /\ get_type(n.expr) = Some("Unit") => Code(n) = Code(n.expr)
            /\ get_type(n.expr) \in {Some("Int"), Some("Bool"), Some("Unit")}

\* a statement of a statement of 3: one PopInt, and nothing for the outer one
C10_Witness ==
    /\ pc = "compiled"
    /\ GeneratesCode
    /\ Root = Statement(Statement(IntLit(3)))
    /\ Bytecode = <<Width, 0, PushInt, 3, 0, 0, 0, PopInt>>

(***************************************************************************)
(* Properties of the rendering                                             *)
(***************************************************************************)
RECURSIVE JoinWith(_, _)
\* the items of a nonempty list with sep between neighbours
JoinWith(items, sep) ==
    IF Len(items) = 1 THEN items[1]
    ELSE items[1] \o sep \o JoinWith(Tail(items), sep)

Humanized(items) ==
    CASE Len(items) = 0 -> ""
      [] Len(items) = 1 -> items[1]
      [] Len(items) = 2 -> items[1] \o " and " \o items[2]
      [] OTHER -> JoinWith(SubSeq(items, 1, Len(items) - 1), ", ")
                      \o ", and " \o items[Len(items)]

RECURSIVE SumLen(_)
SumLen(items) == IF items = <<>> THEN 0 ELSE Len(Head(items)) + SumLen(Tail(items))

\* the characters a humanized join adds to its items
SeparatorLen(n) == CASE n <= 1 -> 0 [] n = 2 -> 5 [] OTHER -> 2 * (n - 2) + 6

OperatorErrorPrefix(log) ==
    (IF IsSome(log.line_and_col)
     THEN "error (line " \o ToString(log.line_and_col[1][1]) \o ":"
              \o ToString(log.line_and_col[1][2]) \o "): "
     ELSE "error: ")
        \o "the operator \"" \o log.log_type.arg \o "\" has no definition over the types "

\* C9: the operand types of an InvalidArgsForOperator message are joined as: nothing
\* for no item, the item for one, "A and B" for two, and for three or more the
\* items but the last separated by ", ", then ", and " and the last; so every item
\* is there once, in order, with only the separators added.
C9_HumanizedJoin ==
    /\ pc = "reported" =>
          /\ Len(strings) = Len(OutLogs)
          /\ \A i \in DOMAIN OutLogs :
                OutLogs[i].log_type.type = "InvalidArgsForOperator" =>
                    /\ strings[i] = OperatorErrorPrefix(OutLogs[i])
                                        \o Humanized(OutLogs[i].log_type.types)
                    /\ Len(strings[i]) = Len(OperatorErrorPrefix(OutLogs[i]))
                          + SumLen(OutLogs[i].log_type.types)
                          + SeparatorLen(Len(OutLogs[i].log_type.types))
    /\ format_vec_string(<<"int", "bool", "int">>) = Some("int, bool, and int")
    /\ format_vec_string(<<"int", "bool">>) = Some("int and bool")
    /\ unwrap_or(format_vec_string(<<>>), "") = ""

\* an operator error naming four operand types, rendered
C9_Witness ==
    /\ pc = "reported"
    /\ Len(OutLogs) = 1
    /\ OutLogs[1].log_type.types = <<"int", "bool", "bool", "int">>
    /\ strings[1] = "error (line 3:9): the operator \"+\" has no definition over the types int, bool, bool, and int"

(***************************************************************************)
(* Properties of the faults                                                *)
(***************************************************************************)
ValueBearing(n) == n.kind \in {"Literal", "Unary", "Binary", "Grouping"}

\* an operator or literal token where the code generator has no arm for it
TokenExcluded(n) ==
    \/ n.kind = "Unary" /\ n.op.token_type \notin UnaryTokens
    \/ n.kind = "Binary" /\ n.op.token_type \notin BinaryTokens
    \/ n.kind = "Literal" /\ n.token.token_type \notin {"IntLiteral", "True", "False"}

\* the typing contract is broken somewhere in the tree
ViolatesContract(e) ==
    \E n \in SubExprs(e) : (ValueBearing(n) /\ n.expr_type = None) \/ TokenExcluded(n)

\* the places where code generation reads a type or a token and finds no arm
NodeFaults(n) ==
    \/ TokenExcluded(n)
    \/ n.kind = "Binary" /\ n.expr_type = None
    \/ n.kind = "Binary" /\ n.op.token_type \in {"Ampersand", "Caret", "Bar"}
          /\ n.expr_type = Some("Unit")
    \/ n.kind = "Binary" /\ n.op.token_type \in {"Equality", "Inequality"}
          /\ get_type(n.left) \notin {Some("Int"), Some("Bool")}
    \/ n.kind = "Statement" /\ get_type(n.expr) = None
    \/ n.kind \notin {"Literal", "Unary", "Binary", "Grouping", "Statement",
                      "ExpressionList", "Unit"}

FaultRead(e) == get_type(e) = None \/ \E n \in SubExprs(e) : NodeFaults(n)

\* C11 as claimed: without an inherited Error, a tree in which some value-bearing
\* node, at the root or at any depth, has no type, or in which a token stands
\* where the type-checker excludes it, makes compile halt: nothing is returned.
C11_EveryViolationHalts ==
    (pc # "parsed" /\ ~HasError(InLogs) /\ ViolatesContract(Root)) =>
        /\ pc = "panicked"
        /\ compiler_output = NoOutput

\* C11, amended: without an inherited Error compile halts, returning neither
\* bytecode nor logs, exactly when a type or a token that code generation reads
\* is missing: the type of the root, of a Binary node, of the operand of a
\* Statement or of the left operand of == or != is absent (or, for & ^ | and for
\* the left of == and !=, Unit), or a token or a node has no arm. An absent type
\* cached on a Literal, Unary or Grouping node in no such position is not read
\* and compile returns normally; whatever it returns, its logs never hold more
\* than the inherited logs and ExcessiveBytecode.
C11_HaltsWhereTypeIsRead ==
    (pc # "parsed" /\ ~HasError(InLogs)) =>
        /\ pc = "panicked" <=> FaultRead(Root)
        /\ pc = "panicked" => (compiler_output = NoOutput /\ strings = <<>>)
        /\ Returns =>
              \/ OutLogs = InLogs
              \/ OutLogs = Append(InLogs, ExcessiveBytecodeLog)

\* true != 2 with no type cached on the literal true: compile halts
C11_Witness ==
    /\ pc = "panicked"
    /\ ~HasError(InLogs)
    /\ Root.kind = "Binary"
    /\ Root.op.token_type = "Inequality"
    /\ Root.expr_type = Some("Bool")
    /\ Root.left = Literal(Tok("True"), None)
    /\ compiler_output = NoOutput

(***************************************************************************)
(* Stack discipline of the generated code                                  *)
(***************************************************************************)
IsInt(e) == get_type(e) = Some("Int")
IsBool(e) == get_type(e) = Some("Bool")

RECURSIVE IsWellTyped(_)
\* every value-bearing node has a type that agrees with its operator and its
\* operands, and an ExpressionList holds Statements and Units only
IsWellTyped(e) ==
    CASE e.kind = "Literal" ->
            \/ e.token.token_type = "IntLiteral" /\ IsInt(e)
            \/ e.token.token_type \in {"True", "False"} /\ IsBool(e)
      [] e.kind = "Unary" ->
            /\ IsWellTyped(e.expr)
            /\ \/ e.op.token_type \in {"Minus", "Tilde"} /\ IsInt(e.expr) /\ IsInt(e)
               \/ e.op.token_type = "ExclamationMark" /\ IsBool(e.expr) /\ IsBool(e)
      [] e.kind = "Binary" ->
            /\ IsWellTyped(e.left)
            /\ IsWellTyped(e.right)
            /\ \/ /\ e.op.token_type \in {"Plus", "Minus", "Star", "Slash", "Percent",
                                          "LeftShift", "RightShift"}
                  /\ IsInt(e.left) /\ IsInt(e.right) /\ IsInt(e)
               \/ /\ e.op.token_type \in {"Less", "LessEqual", "Greater", "GreaterEqual"}
                  /\ IsInt(e.left) /\ IsInt(e.right) /\ IsBool(e)
               \/ /\ e.op.token_type \in {"Ampersand", "Caret", "Bar"}
                  /\ \/ IsInt(e.left) /\ IsInt(e.right) /\ IsInt(e)
                     \/ IsBool(e.left) /\ IsBool(e.right) /\ IsBool(e)
               \/ /\ e.op.token_type \in {"Equality", "Inequality"}
                  /\ \/ IsInt(e.left) /\ IsInt(e.right)
                     \/ IsBool(e.left) /\ IsBool(e.right)
                  /\ IsBool(e)
      [] e.kind = "Grouping" ->
            IsWellTyped(e.expr) /\ e.expr_type = get_type(e.expr)
      [] e.kind = "Statement" -> IsWellTyped(e.expr)
      [] e.kind = "ExpressionList" ->
            \A i \in DOMAIN e.list :
                e.list[i].kind \in {"Statement", "Unit"} /\ IsWellTyped(e.list[i])
      [] e.kind = "Unit" -> TRUE
      [] OTHER -> FALSE

\* what an instruction takes from the stack (the top last), what it leaves
\* there, and how many operand bytes follow its opcode
Effect(pops, pushes, operands) ==
    [known |-> TRUE, pops |-> pops, pushes |-> pushes, operands |-> operands]

StackEffect(op, w) ==
    CASE op = PushInt -> Effect(<<>>, <<"Int">>, 4)
      [] op = PushByte -> Effect(<<>>, <<"Byte">>, 1)
      [] op \in {PopInt, PrintInt} -> Effect(<<"Int">>, <<>>, 0)
      [] op \in {PopByte, PrintBool} -> Effect(<<"Byte">>, <<>>, 0)
      [] op \in {MinusInt, ComplementInt} -> Effect(<<"Int">>, <<"Int">>, 0)
      [] op = Not -> Effect(<<"Byte">>, <<"Byte">>, 0)
      [] op \in {AddInt, SubtractInt, MultiplyInt, LeftShiftInt, RightShiftInt,
                 AndInt, XorInt, OrInt} -> Effect(<<"Int", "Int">>, <<"Int">>, 0)
      [] op \in {DivideInt, ModuloInt} -> Effect(<<"Int", "Int">>, <<"Int">>, 2 * w)
      [] op \in {LessInt, LessEqualInt, GreaterInt, GreaterEqualInt, EqualityInt,
                 InequalityInt} -> Effect(<<"Int", "Int">>, <<"Byte">>, 0)
      [] op \in {AndByte, XorByte, OrByte, EqualityByte, InequalityByte} ->
            Effect(<<"Byte", "Byte">>, <<"Byte">>, 0)
      [] OTHER -> [known |-> FALSE, pops |-> <<>>, pushes |-> <<>>, operands |-> 0]

\* one instruction replayed: st.i is the index of its opcode in the buffer
ReplayStep(st, code, w) ==
    LET e == StackEffect(code[st.i], w)
        n == Len(e.pops)
        depth == Len(st.stack)
        fits == /\ e.known
                /\ st.i + e.operands <= Len(code)
                /\ depth >= n
                /\ SubSeq(st.stack, depth - n + 1, depth) = e.pops
    IN  IF fits
        THEN [i |-> st.i + 1 + e.operands,
              stack |-> SubSeq(st.stack, 1, depth - n) \o e.pushes,
              ok |-> TRUE]
        ELSE [i |-> st.i, stack |-> st.stack, ok |-> FALSE]

RECURSIVE Replay(_, _, _)
Replay(st, code, w) ==
    IF st.i > Len(code) \/ ~st.ok THEN st ELSE Replay(ReplayStep(st, code, w), code, w)

\* the returned buffer replayed from behind its header, on an empty stack
Replayed == Replay([i |-> 3, stack |-> <<>>, ok |-> TRUE], Bytecode, Width)

\* C12: the buffer returned for a well-typed tree, replayed after the header
\* with the stack effect of each instruction, never pops an empty stack, gives
\* every typed pop, print and operator operands of the type its name says, and
\* leaves the stack empty after its last instruction.
C12_StackDiscipline ==
    (GeneratesCode /\ IsWellTyped(Root)) =>
        /\ Replayed.ok
        /\ Replayed.i = Len(Bytecode) + 1
        /\ Replayed.stack = <<>>

\* the program `3 / 2; 3` compiled for a 1-byte target: the position bytes 44 and
\* 7 after the divide opcode are stepped over, and both values are popped
C12_Witness ==
    /\ pc = "compiled"
    /\ GeneratesCode
    /\ IsWellTyped(Root)
    /\ Width = 1
    /\ Bytecode = <<1, 0, PushInt, 3, 0, 0, 0, PushInt, 2, 0, 0, 0, DivideInt, 44, 7,
                    PopInt, PushInt, 3, 0, 0, 0, PopInt>>

====
